---- MODULE Spec2Model ----
(***************************************************************************)
(* Lamport logical clocks: a model of                                      *)
(* paradigms/distributed/lamport/scripts/lamport_clock.py                  *)
(*                                                                         *)
(* LamportClock is a per-process counter with an event log;                *)
(* DistributedSystem owns the processes, the pending queue and the         *)
(* delivered log.  Every public method of DistributedSystem is one action; *)
(* `last` records which call was made, with what arguments, and how it     *)
(* ended (a return, or the exception that left the call).                  *)
(***************************************************************************)
EXTENDS Integers, Sequences, FiniteSets, TLC

\* ------------------------------------------------------------------ bounds
\* local_event and send_message are enabled while the logs hold fewer LOCAL
\* and SEND events; deliveries are bounded by the messages sent.
MaxEvents == 2

\* ------------------------------------------------------------------- state
\* process_ids is the list DistributedSystem.__init__ was called with; created
\* holds every Message LamportClock.send has constructed; last is the latest
\* call: its arguments and how it ended.  run is the activation of
\* ChaosExperiment.run: the experiment's fields, the dry_run argument, the
\* ExperimentResult under construction, the locals of the monitoring loop, the
\* position in the method, and how often the action's methods were called.
VARIABLES process_ids, processes, pending_messages, delivered_messages, created, last,
          run

\* ------------------------------------------------------- the driver's inputs
\* Lists the constructor is called with.  In ["B", "A"] the registration
\* order differs from the lexicographic order of the ids.
CtorArgs == {<<"B", "A">>, <<"A", "A">>, <<>>}

\* The keys of {pid: LamportClock(pid) for pid in process_ids}, in dict order:
\* a repeated id keeps the position of its first occurrence.
RECURSIVE DictKeys(_)
DictKeys(ids) ==
    IF ids = <<>> THEN <<>>
    ELSE LET front == DictKeys(SubSeq(ids, 1, Len(ids) - 1))
         IN  IF ids[Len(ids)] \in {front[i] : i \in 1..Len(front)}
             THEN front
             ELSE Append(front, ids[Len(ids)])

Procs == DictKeys(process_ids)

Registered == {Procs[i] : i \in 1..Len(Procs)}

\* Ids a caller may pass: the registered ones and one that is not registered.
PidArgs == Registered \cup {"Z"}

Contents == {"x"}

\* Content of a forged copy of a message.
ForgedContents == {"y"}

Descriptions == {"w"}

\* Lexicographic order of the process-id strings ("A" < "B" < "C" < "Z").
PidRank(pid) ==
    CASE pid = "A" -> 1 [] pid = "B" -> 2 [] pid = "C" -> 3 [] pid = "Z" -> 4 [] OTHER -> 0

\* ------------------------------------------------------------ data classes
\* EventType
EventType_LOCAL == "local"
EventType_SEND == "send"
EventType_RECEIVE == "receive"

\* Event.message_id defaults to None
None == <<"", 0>>

Event(process_id, event_type, timestamp, description, message_id) ==
    [process_id |-> process_id, event_type |-> event_type,
     timestamp |-> timestamp, description |-> description,
     message_id |-> message_id]

Message(id, sender, receiver, timestamp, content) ==
    [id |-> id, sender |-> sender, receiver |-> receiver,
     timestamp |-> timestamp, content |-> content]

\* A message id that leaves out the clock value.
MessageId_ProcessOnly(process_id, time) == <<process_id, 0>>

\* f"{self.process_id}-{self.time}": the pair it is formatted from.  The
\* format is injective: the clock value is a non-negative integer, so the
\* text after the last "-" is the clock and the text before it is the id.
MessageId(process_id, time) == <<process_id, time>>

\* ------------------------------------------------------------ LamportClock
LamportClock(process_id) ==
    [process_id |-> process_id, time |-> 0, events |-> <<>>]

Max(a, b) == IF a >= b THEN a ELSE b

\* local_event that advances the clock by two.
LamportClock_local_event_PlusTwo(self, description) ==
    LET t == self.time + 2
        event == Event(self.process_id, EventType_LOCAL, t, <<description>>, None)
    IN  [self |-> [self EXCEPT !.time = t, !.events = Append(@, event)],
         event |-> event]

\* local_event that stamps the event before it advances the clock.
LamportClock_local_event_StampOld(self, description) ==
    LET t == self.time + 1
        event == Event(self.process_id, EventType_LOCAL, self.time, <<description>>, None)
    IN  [self |-> [self EXCEPT !.time = t, !.events = Append(@, event)],
         event |-> event]

LamportClock_local_event(self, description) ==
    LET t == self.time + 1
        event == Event(self.process_id, EventType_LOCAL, t, <<description>>, None)
    IN  [self |-> [self EXCEPT !.time = t, !.events = Append(@, event)],
         event |-> event]

\* send that builds the Message before it advances the clock.
LamportClock_send_StaleMessage(self, receiver, content) ==
    LET t == self.time + 1
        message == Message(MessageId(self.process_id, self.time), self.process_id,
                           receiver, self.time, content)
        event == Event(self.process_id, EventType_SEND, t,
                       <<"Send to", receiver, content>>, message.id)
    IN  [self |-> [self EXCEPT !.time = t, !.events = Append(@, event)],
         event |-> event, message |-> message]

LamportClock_send(self, receiver, content) ==
    LET t == self.time + 1
        message == Message(MessageId(self.process_id, t), self.process_id,
                           receiver, t, content)
        event == Event(self.process_id, EventType_SEND, t,
                       <<"Send to", receiver, content>>, message.id)
    IN  [self |-> [self EXCEPT !.time = t, !.events = Append(@, event)],
         event |-> event, message |-> message]

\* receive that forgets the local clock: message.timestamp + 1.
LamportClock_receive_NoLocal(self, message) ==
    LET t == message.timestamp + 1
        event == Event(self.process_id, EventType_RECEIVE, t,
                       <<"Receive from", message.sender, message.content>>,
                       message.id)
    IN  [self |-> [self EXCEPT !.time = t, !.events = Append(@, event)],
         event |-> event]

\* receive that forgets the increment: max(local, received).
LamportClock_receive_NoIncrement(self, message) ==
    LET t == Max(self.time, message.timestamp)
        event == Event(self.process_id, EventType_RECEIVE, t,
                       <<"Receive from", message.sender, message.content>>,
                       message.id)
    IN  [self |-> [self EXCEPT !.time = t, !.events = Append(@, event)],
         event |-> event]

\* receive that adds the two clocks.
LamportClock_receive_SumClocks(self, message) ==
    LET t == self.time + message.timestamp + 1
        event == Event(self.process_id, EventType_RECEIVE, t,
                       <<"Receive from", message.sender, message.content>>,
                       message.id)
    IN  [self |-> [self EXCEPT !.time = t, !.events = Append(@, event)],
         event |-> event]

\* receive that ticks like a local event and ignores message.timestamp.
LamportClock_receive_KeepLocal(self, message) ==
    LET t == self.time + 1
        event == Event(self.process_id, EventType_RECEIVE, t,
                       <<"Receive from", message.sender, message.content>>,
                       message.id)
    IN  [self |-> [self EXCEPT !.time = t, !.events = Append(@, event)],
         event |-> event]

LamportClock_receive(self, message) ==
    LET t == Max(self.time, message.timestamp) + 1
        event == Event(self.process_id, EventType_RECEIVE, t,
                       <<"Receive from", message.sender, message.content>>,
                       message.id)
    IN  [self |-> [self EXCEPT !.time = t, !.events = Append(@, event)],
         event |-> event]

\* ------------------------------------------------------ chaos_experiment.py
\* class ExperimentStatus(Enum)
ExperimentStatus_PENDING == "pending"
ExperimentStatus_RUNNING == "running"
ExperimentStatus_COMPLETED == "completed"
ExperimentStatus_ABORTED == "aborted"
ExperimentStatus_FAILED == "failed"

\* The hypothesis of demo_experiment: tolerance_min=0, tolerance_max=1.0.
tolerance_min == 0
tolerance_max == 1

\* What a call of the probe does: it returns a number or it raises.  -1 and 2
\* lie outside the tolerance, 0 and 1 inside.
ProbeValues == {-1, 0, 1, 2}
ProbeOutcomes ==
    {[raises |-> FALSE, value |-> v] : v \in ProbeValues}
    \cup {[raises |-> TRUE, value |-> 0]}

\* duration_seconds the experiment is constructed with: below 3, where
\* duration_seconds // 3 is 0; not a multiple of 3; the demo's 30; above 30,
\* where min(10, .) caps the interval; the default 60.
Durations == {1, 2, 3, 4, 30, 33, 60}

\* A dict returned by SteadyStateHypothesis.check, by the keys it holds and the
\* entries run reads; NoDict is the None an Optional[dict] field starts with.
NoDict == [keys |-> {}, value |-> 0, satisfied |-> FALSE]

\* SteadyStateHypothesis.check: the dict of a probe that raised has 'error'
\* and no 'value'.
SteadyStateHypothesis_check(probe) ==
    IF probe.raises
    THEN [keys |-> {"name", "error", "satisfied"}, value |-> 0,
          satisfied |-> FALSE]
    ELSE [keys |-> {"name", "value", "tolerance", "satisfied"},
          value |-> probe.value,
          satisfied |-> tolerance_min <= probe.value /\ probe.value <= tolerance_max]

\* ExperimentResult(experiment_name, status, started_at): the other fields
\* default to None.
ExperimentResult(status) ==
    [status |-> status,
     hypothesis_before |-> NoDict, hypothesis_during |-> NoDict,
     hypothesis_after |-> NoDict,
     action_result |-> "None", rollback_result |-> "None",
     abort_reason |-> "None"]

\* min(10, duration_seconds // 3)
check_interval(duration_seconds) ==
    IF duration_seconds \div 3 < 10 THEN duration_seconds \div 3 ELSE 10

\* experiment.run(dry_run) entered: result is constructed with status RUNNING.
\* returned says how the call ended: "" while it runs, "result" when it has
\* returned result, "exception" when an exception left it.
Run(duration_seconds, abort_on_hypothesis_failure, dry_run) ==
    [pc |-> "pre_check",
     duration_seconds |-> duration_seconds,
     abort_on_hypothesis_failure |-> abort_on_hypothesis_failure,
     dry_run |-> dry_run,
     result |-> ExperimentResult(ExperimentStatus_RUNNING),
     check_interval |-> 0, elapsed |-> 0,
     executes |-> 0, rollbacks |-> 0,
     returned |-> ""]

\* No experiment is run next to the clock simulator.
NoRun == [Run(0, FALSE, FALSE) EXCEPT !.pc = "idle"]

\* ------------------------------------------------------- DistributedSystem
sysvars == <<processes, pending_messages, delivered_messages>>
lamportvars == <<process_ids, processes, pending_messages, delivered_messages,
                 created, last>>
vars == <<process_ids, processes, pending_messages, delivered_messages, created, last,
          run>>

Range(s) == {s[i] : i \in 1..Len(s)}

\* The system as one value, for the methods that call other methods.
System == [processes |-> processes, pending_messages |-> pending_messages,
           delivered_messages |-> delivered_messages]

\* list.remove(x): drops the first element equal to x.
Remove(s, x) ==
    LET i == CHOOSE k \in 1..Len(s) : s[k] = x /\ \A j \in 1..(k - 1) : s[j] # x
    IN  SubSeq(s, 1, i - 1) \o SubSeq(s, i + 1, Len(s))

NoMessage == Message(None, "", "", 0, "")

Call(op, process_id, receiver, content, message, outcome, ret) ==
    [op |-> op, process_id |-> process_id, receiver |-> receiver,
     content |-> content, message |-> message, outcome |-> outcome,
     ret |-> ret]

TotalEvents ==
    LET RECURSIVE Sum(_)
        Sum(i) == IF i = 0 THEN 0 ELSE Len(processes[Procs[i]].events) + Sum(i - 1)
    IN  Sum(Len(Procs))

\* The LOCAL and SEND events in the logs.
OwnEvents ==
    LET RECURSIVE Sum(_)
        Sum(i) ==
            IF i = 0 THEN 0
            ELSE LET log == processes[Procs[i]].events
                 IN  Cardinality({k \in 1..Len(log) :
                                     log[k].event_type # EventType_RECEIVE})
                     + Sum(i - 1)
    IN  Sum(Len(Procs))

\* DistributedSystem.__init__: a dict comprehension over process_ids; no list
\* is refused.
Init ==
    /\ process_ids \in CtorArgs
    /\ processes = [pid \in Registered |-> LamportClock(pid)]
    /\ pending_messages = <<>>
    /\ delivered_messages = <<>>
    /\ created = <<>>
    /\ last = Call("__init__", "", "", "", NoMessage, "ok", <<>>)
    /\ run = NoRun

\* DistributedSystem.local_event: self.processes[process_id] raises KeyError
\* for an id that is not a key.
\* local_event that registers an unknown process on first use.
local_event_AutoRegister(process_id, description) ==
    LET self == IF process_id \in DOMAIN processes
                THEN processes[process_id] ELSE LamportClock(process_id)
        r == LamportClock_local_event(self, description)
    IN  /\ processes' = (process_id :> r.self) @@ processes
        /\ last' = Call("local_event", process_id, "", description,
                        NoMessage, "ok", <<>>)
        /\ UNCHANGED <<run, process_ids, pending_messages, delivered_messages, created>>

local_event(process_id, description) ==
    IF process_id \notin DOMAIN processes
    THEN /\ last' = Call("local_event", process_id, "", description,
                         NoMessage, "KeyError", <<>>)
         /\ UNCHANGED <<run, process_ids, processes, pending_messages,
                        delivered_messages, created>>
    ELSE /\ LET r == LamportClock_local_event(processes[process_id], description)
            IN  processes' = [processes EXCEPT ![process_id] = r.self]
         /\ last' = Call("local_event", process_id, "", description,
                         NoMessage, "ok", <<>>)
         /\ UNCHANGED <<run, process_ids, pending_messages, delivered_messages, created>>

LocalEvent ==
    \E process_id \in PidArgs, description \in Descriptions :
        /\ process_id \in DOMAIN processes => OwnEvents < MaxEvents
        /\ local_event(process_id, description)

\* DistributedSystem.send_message: only self.processes[sender] is looked up.
\* send_message that refuses a message addressed to its own sender.
send_message_RejectSelf(sender, receiver, content) ==
    IF sender \notin DOMAIN processes \/ sender = receiver
    THEN /\ last' = Call("send_message", sender, receiver, content, NoMessage,
                         IF sender \notin DOMAIN processes THEN "KeyError"
                         ELSE "ValueError", <<>>)
         /\ UNCHANGED <<run, process_ids, processes, pending_messages,
                        delivered_messages, created>>
    ELSE /\ LET r == LamportClock_send(processes[sender], receiver, content)
            IN  /\ processes' = [processes EXCEPT ![sender] = r.self]
                /\ pending_messages' = Append(pending_messages, r.message)
                /\ created' = Append(created, r.message)
                /\ last' = Call("send_message", sender, receiver, content,
                                r.message, "ok", <<>>)
         /\ UNCHANGED <<run, process_ids, delivered_messages>>

send_message(sender, receiver, content) ==
    IF sender \notin DOMAIN processes
    THEN /\ last' = Call("send_message", sender, receiver, content,
                         NoMessage, "KeyError", <<>>)
         /\ UNCHANGED <<run, process_ids, processes, pending_messages,
                        delivered_messages, created>>
    ELSE /\ LET r == LamportClock_send(processes[sender], receiver, content)
            IN  /\ processes' = [processes EXCEPT ![sender] = r.self]
                /\ pending_messages' = Append(pending_messages, r.message)
                /\ created' = Append(created, r.message)
                /\ last' = Call("send_message", sender, receiver, content,
                                r.message, "ok", <<>>)
         /\ UNCHANGED <<run, process_ids, delivered_messages>>

SendMessage ==
    \E sender \in PidArgs, receiver \in PidArgs, content \in Contents :
        /\ sender \in DOMAIN processes => OwnEvents < MaxEvents
        /\ send_message(sender, receiver, content)

\* deliver_message that forgets delivered_messages.append.
deliver_message_NoAppend(sys, message) ==
    IF message \in Range(sys.pending_messages)
    THEN LET moved == [sys EXCEPT !.pending_messages = Remove(@, message)]
         IN  IF message.receiver \notin DOMAIN sys.processes
             THEN [sys |-> moved, outcome |-> "KeyError"]
             ELSE LET r == LamportClock_receive(sys.processes[message.receiver], message)
                  IN  [sys |-> [moved EXCEPT !.processes[message.receiver] = r.self],
                       outcome |-> "ok"]
    ELSE [sys |-> sys, outcome |-> "ValueError"]

\* deliver_message that puts the message back into pending when the receiver
\* lookup fails, without taking it out of delivered.
deliver_message_Requeue(sys, message) ==
    IF message \in Range(sys.pending_messages)
    THEN LET moved == [sys EXCEPT
                         !.pending_messages = Remove(@, message),
                         !.delivered_messages = Append(@, message)]
         IN  IF message.receiver \notin DOMAIN sys.processes
             THEN [sys |-> [moved EXCEPT !.pending_messages = Append(@, message)],
                   outcome |-> "KeyError"]
             ELSE LET r == LamportClock_receive(sys.processes[message.receiver], message)
                  IN  [sys |-> [moved EXCEPT !.processes[message.receiver] = r.self],
                       outcome |-> "ok"]
    ELSE [sys |-> sys, outcome |-> "ValueError"]

\* deliver_message that also accepts a message found in delivered_messages.
deliver_message_NoCheck(sys, message) ==
    IF message \in Range(sys.pending_messages) \cup Range(sys.delivered_messages)
    THEN LET moved == [sys EXCEPT
                         !.pending_messages =
                             IF message \in Range(@) THEN Remove(@, message) ELSE @,
                         !.delivered_messages = Append(@, message)]
         IN  IF message.receiver \notin DOMAIN sys.processes
             THEN [sys |-> moved, outcome |-> "KeyError"]
             ELSE LET r == LamportClock_receive(sys.processes[message.receiver], message)
                  IN  [sys |-> [moved EXCEPT !.processes[message.receiver] = r.self],
                       outcome |-> "ok"]
    ELSE [sys |-> sys, outcome |-> "ValueError"]

\* deliver_message that logs the message as delivered before it raises.
deliver_message_AppendBeforeRaise(sys, message) ==
    IF message \in Range(sys.pending_messages)
    THEN LET moved == [sys EXCEPT
                         !.pending_messages = Remove(@, message),
                         !.delivered_messages = Append(@, message)]
         IN  IF message.receiver \notin DOMAIN sys.processes
             THEN [sys |-> moved, outcome |-> "KeyError"]
             ELSE LET r == LamportClock_receive(sys.processes[message.receiver], message)
                  IN  [sys |-> [moved EXCEPT !.processes[message.receiver] = r.self],
                       outcome |-> "ok"]
    ELSE [sys |-> [sys EXCEPT !.delivered_messages = Append(@, message)],
          outcome |-> "ValueError"]

\* deliver_message that also moves the sender's clock up to the receiver's.
deliver_message_SyncSender(sys, message) ==
    IF message \in Range(sys.pending_messages)
    THEN LET moved == [sys EXCEPT
                         !.pending_messages = Remove(@, message),
                         !.delivered_messages = Append(@, message)]
         IN  IF message.receiver \notin DOMAIN sys.processes
             THEN [sys |-> moved, outcome |-> "KeyError"]
             ELSE LET r == LamportClock_receive(sys.processes[message.receiver], message)
                      recv == [moved EXCEPT !.processes[message.receiver] = r.self]
                  IN  [sys |-> [recv EXCEPT !.processes[message.sender].time =
                                                Max(@, r.self.time)],
                       outcome |-> "ok"]
    ELSE [sys |-> sys, outcome |-> "ValueError"]

\* DistributedSystem.deliver_message on a system value: the system it leaves
\* and how the call ended.  The message is moved from pending to delivered
\* before self.processes[message.receiver] is looked up.
deliver_message(sys, message) ==
    IF message \in Range(sys.pending_messages)
    THEN LET moved == [sys EXCEPT
                         !.pending_messages = Remove(@, message),
                         !.delivered_messages = Append(@, message)]
         IN  IF message.receiver \notin DOMAIN sys.processes
             THEN [sys |-> moved, outcome |-> "KeyError"]
             ELSE LET r == LamportClock_receive(sys.processes[message.receiver], message)
                  IN  [sys |-> [moved EXCEPT !.processes[message.receiver] = r.self],
                       outcome |-> "ok"]
    ELSE [sys |-> sys, outcome |-> "ValueError"]

\* Messages a caller may hand to deliver_message: every message send_message
\* returned, copies of those with another content, and one never sent.
NeverSent == Message(MessageId("Z", 1), "Z", "A", 1, "x")

DeliverArgs ==
    Range(created)
    \cup {[m EXCEPT !.content = c] : m \in Range(created), c \in ForgedContents}
    \cup {NeverSent}

Deliver(message) ==
    LET r == deliver_message(System, message)
    IN  /\ processes' = r.sys.processes
        /\ pending_messages' = r.sys.pending_messages
        /\ delivered_messages' = r.sys.delivered_messages
        /\ last' = Call("deliver_message", "", "", "", message, r.outcome, <<>>)
        /\ UNCHANGED <<run, process_ids, created>>

DeliverMessage ==
    \E message \in DeliverArgs : Deliver(message)

\* DistributedSystem.deliver_all_pending on a system value: every way the
\* loop can end, one per sequence of random.choice draws.  An exception of
\* deliver_message leaves the loop.
RECURSIVE deliver_all_pending(_)
deliver_all_pending(sys) ==
    IF sys.pending_messages = <<>>
    THEN {[sys |-> sys, outcome |-> "ok"]}
    ELSE UNION {LET r == deliver_message(sys, sys.pending_messages[i])
                IN  IF r.outcome = "ok"
                    THEN deliver_all_pending(r.sys)
                    ELSE {r}
                : i \in 1..Len(sys.pending_messages)}

DeliverAllPending ==
    \E r \in deliver_all_pending(System) :
        /\ processes' = r.sys.processes
        /\ pending_messages' = r.sys.pending_messages
        /\ delivered_messages' = r.sys.delivered_messages
        /\ last' = Call("deliver_all_pending", "", "", "", NoMessage, r.outcome, <<>>)
        /\ UNCHANGED <<run, process_ids, created>>

\* A sort key that forgets the timestamp.
KeyLess_ProcessOnly(a, b) ==
    PidRank(a.process_id) < PidRank(b.process_id)

\* A sort key that forgets the process id.
KeyLess_TimestampOnly(a, b) ==
    a.timestamp < b.timestamp

\* key=lambda e: (e.timestamp, e.process_id), compared as Python compares
\* tuples.
KeyLess(a, b) ==
    \/ a.timestamp < b.timestamp
    \/ a.timestamp = b.timestamp /\ PidRank(a.process_id) < PidRank(b.process_id)

\* sorted() is stable: an element goes after every element whose key is not
\* greater than its own.
InsertSorted(s, e) ==
    LET n == Cardinality({i \in 1..Len(s) : ~KeyLess(e, s[i])})
    IN  SubSeq(s, 1, n) \o <<e>> \o SubSeq(s, n + 1, Len(s))

RECURSIVE sorted(_)
sorted(s) ==
    IF s = <<>> THEN <<>>
    ELSE InsertSorted(sorted(SubSeq(s, 1, Len(s) - 1)), s[Len(s)])

\* DistributedSystem.get_global_history: the logs concatenated in the order
\* of self.processes.values() (registration order), then sorted.
RECURSIVE all_events(_, _)
all_events(sys, order) ==
    IF order = <<>> THEN <<>>
    ELSE all_events(sys, SubSeq(order, 1, Len(order) - 1))
             \o sys.processes[order[Len(order)]].events

get_global_history(sys) == sorted(all_events(sys, Procs))

\* The first event of a log with the given message id and type, or <<>>
\* when the loop ends without a break.
FirstEvent(log, id, type) ==
    LET hits == {i \in 1..Len(log) : log[i].message_id = id /\ log[i].event_type = type}
    IN  IF hits = {} THEN <<>>
        ELSE <<log[CHOOSE i \in hits : \A j \in hits : i <= j]>>

\* DistributedSystem.verify_causality: the violations found, or the KeyError
\* of a self.processes[...] lookup.  A violation string is modelled by the
\* two timestamps it is formatted from.
verify_causality(sys) ==
    LET RECURSIVE loop(_, _)
        loop(i, violations) ==
            IF i > Len(sys.delivered_messages)
            THEN [outcome |-> "ok", ret |-> violations]
            ELSE LET message == sys.delivered_messages[i]
                 IN  IF \/ message.sender \notin DOMAIN sys.processes
                        \/ message.receiver \notin DOMAIN sys.processes
                     THEN [outcome |-> "KeyError", ret |-> <<>>]
                     ELSE LET send_event == FirstEvent(sys.processes[message.sender].events,
                                                       message.id, EventType_SEND)
                              recv_event == FirstEvent(sys.processes[message.receiver].events,
                                                       message.id, EventType_RECEIVE)
                          IN  IF /\ send_event # <<>>
                                 /\ recv_event # <<>>
                                 /\ recv_event[1].timestamp <= send_event[1].timestamp
                              THEN loop(i + 1, Append(violations,
                                       <<send_event[1].timestamp, recv_event[1].timestamp>>))
                              ELSE loop(i + 1, violations)
    IN  loop(1, <<>>)

VerifyCausality ==
    LET r == verify_causality(System)
    IN  /\ last' = Call("verify_causality", "", "", "", NoMessage, r.outcome, r.ret)
        /\ UNCHANGED <<run, process_ids, processes, pending_messages,
                       delivered_messages, created>>

Next ==
    \/ LocalEvent
    \/ SendMessage
    \/ DeliverMessage
    \/ DeliverAllPending
    \/ VerifyCausality

Spec == Init /\ [][Next]_vars

\* -------------------------------------------------------------------- demo()
\* system = DistributedSystem(["A", "B", "C"])
DemoProcs == <<"A", "B", "C">>

DemoCall(op, a, b, text, msg) == [op |-> op, a |-> a, b |-> b, text |-> text, msg |-> msg]

\* The calls of demo() in program order; msg is the number of the send whose
\* returned Message a deliver_message call is given (msg1, msg2, msg3).
DemoScript ==
    << DemoCall("local_event", "A", "", "Start computation", 0),
       DemoCall("send_message", "A", "B", "Hello B", 0),
       DemoCall("local_event", "B", "", "Initialize", 0),
       DemoCall("local_event", "B", "", "Process data", 0),
       DemoCall("deliver_message", "", "", "", 1),
       DemoCall("send_message", "B", "C", "Forward to C", 0),
       DemoCall("local_event", "C", "", "Startup", 0),
       DemoCall("deliver_message", "", "", "", 2),
       DemoCall("send_message", "C", "A", "Response to A", 0),
       DemoCall("local_event", "A", "", "Continue processing", 0),
       DemoCall("deliver_message", "", "", "", 3) >>

InitDemo ==
    /\ process_ids = DemoProcs
    /\ processes = [pid \in Registered |-> LamportClock(pid)]
    /\ pending_messages = <<>>
    /\ delivered_messages = <<>>
    /\ created = <<>>
    /\ last = Call("__init__", "", "", "", NoMessage, "ok", <<>>)
    /\ run = NoRun

\* The next call of the script.  Every call of the script appends exactly one
\* event, so the number of events logged is the number of calls made.
DemoStep ==
    /\ TotalEvents < Len(DemoScript)
    /\ LET c == DemoScript[TotalEvents + 1]
       IN  \/ c.op = "local_event" /\ local_event(c.a, c.text)
           \/ c.op = "send_message" /\ send_message(c.a, c.b, c.text)
           \/ c.op = "deliver_message" /\ Deliver(created[c.msg])

\* Between two calls of the script: a call the system refuses, which leaves
\* it as it was.
RefusedCall ==
    /\ LocalEvent \/ SendMessage \/ DeliverMessage
    /\ last'.outcome # "ok"
    /\ UNCHANGED sysvars

NextDemo ==
    \/ DemoStep
    \/ RefusedCall
    \/ VerifyCausality

SpecDemo == InitDemo /\ [][NextDemo]_vars

\* ------------------------------------------------------ ChaosExperiment.run
\* An experiment is constructed and run(dry_run) is entered; no clock
\* simulator is constructed next to it.
InitChaos ==
    /\ process_ids = <<>>
    /\ processes = [pid \in Registered |-> LamportClock(pid)]
    /\ pending_messages = <<>>
    /\ delivered_messages = <<>>
    /\ created = <<>>
    /\ last = Call("__init__", "", "", "", NoMessage, "ok", <<>>)
    /\ run \in {Run(d, a, dry) : d \in Durations, a \in BOOLEAN, dry \in BOOLEAN}

\* Step 1 and the dry-run exit.  The log line after the check reads
\* hypothesis_before['value'], outside the try statement.
PreCheck ==
    /\ run.pc = "pre_check"
    /\ \E probe \in ProbeOutcomes :
           LET before == SteadyStateHypothesis_check(probe)
               r == [run EXCEPT !.result.hypothesis_before = before]
           IN  run' =
                   IF ~before.satisfied
                   THEN [r EXCEPT !.result.status = ExperimentStatus_ABORTED,
                                  !.result.abort_reason =
                                      "Pre-experiment steady state check failed",
                                  !.pc = "done", !.returned = "result"]
                   ELSE IF "value" \notin before.keys
                   THEN [r EXCEPT !.pc = "done", !.returned = "exception"]
                   ELSE IF run.dry_run
                   THEN [r EXCEPT !.result.status = ExperimentStatus_COMPLETED,
                                  !.pc = "done", !.returned = "result"]
                   ELSE [r EXCEPT !.pc = "execute"]
    /\ UNCHANGED lamportvars

\* Step 2: self.action.execute() returns a dict or raises; an exception is
\* caught by except Exception, which sets FAILED and abort_reason = str(e).
\* After a return the loop's locals are initialised.
Execute ==
    /\ run.pc = "execute"
    /\ \E raises \in BOOLEAN :
           run' =
               IF raises
               THEN [run EXCEPT !.executes = @ + 1,
                                !.result.status = ExperimentStatus_FAILED,
                                !.result.abort_reason = "str(e)",
                                !.pc = "rollback"]
               ELSE [run EXCEPT !.executes = @ + 1,
                                !.result.action_result = "dict",
                                !.check_interval = check_interval(run.duration_seconds),
                                !.elapsed = 0,
                                !.pc = "monitor"]
    /\ UNCHANGED lamportvars

\* Step 3, one iteration of while elapsed < self.duration_seconds: sleep,
\* advance elapsed, check, log hypothesis_during['value'] (KeyError when the
\* key is missing, caught by except Exception), abort when asked to.
Monitor ==
    /\ run.pc = "monitor"
    /\ run.elapsed < run.duration_seconds
    /\ \E probe \in ProbeOutcomes :
           LET during == SteadyStateHypothesis_check(probe)
               r == [run EXCEPT !.elapsed = @ + run.check_interval,
                                !.result.hypothesis_during = during]
           IN  run' =
                   IF "value" \notin during.keys
                   THEN [r EXCEPT !.result.status = ExperimentStatus_FAILED,
                                  !.result.abort_reason = "'value'",
                                  !.pc = "rollback"]
                   ELSE IF run.abort_on_hypothesis_failure /\ ~during.satisfied
                   THEN [r EXCEPT !.result.status = ExperimentStatus_ABORTED,
                                  !.result.abort_reason =
                                      "Hypothesis failed during experiment",
                                  !.pc = "rollback"]
                   ELSE r
    /\ UNCHANGED lamportvars

\* The loop condition is false: control reaches the finally clause.
MonitorDone ==
    /\ run.pc = "monitor"
    /\ ~(run.elapsed < run.duration_seconds)
    /\ run' = [run EXCEPT !.pc = "rollback"]
    /\ UNCHANGED lamportvars

\* Step 4, the finally clause: self.action.rollback() returns a dict or
\* raises; an exception raised here leaves run.
Rollback ==
    /\ run.pc = "rollback"
    /\ \E raises \in BOOLEAN :
           run' =
               IF raises
               THEN [run EXCEPT !.rollbacks = @ + 1,
                                !.pc = "done", !.returned = "exception"]
               ELSE [run EXCEPT !.rollbacks = @ + 1,
                                !.result.rollback_result = "dict",
                                !.pc = "post_check"]
    /\ UNCHANGED lamportvars

\* Step 5 and the return: the check after the rollback, RUNNING becomes
\* COMPLETED, result is returned.
PostCheck ==
    /\ run.pc = "post_check"
    /\ \E probe \in ProbeOutcomes :
           run' = [run EXCEPT
                       !.result.hypothesis_after = SteadyStateHypothesis_check(probe),
                       !.result.status = IF @ = ExperimentStatus_RUNNING
                                         THEN ExperimentStatus_COMPLETED ELSE @,
                       !.pc = "done", !.returned = "result"]
    /\ UNCHANGED lamportvars

NextChaos ==
    \/ PreCheck
    \/ Execute
    \/ Monitor
    \/ MonitorDone
    \/ Rollback
    \/ PostCheck

\* The interpreter keeps executing run while it has a next statement.
SpecChaos == InitChaos /\ [][NextChaos]_vars /\ WF_vars(NextChaos)

\* ================================================================ properties
Count(s, x) == Cardinality({i \in 1..Len(s) : s[i] = x})

\* The RECEIVE events of a log that carry the given message id.
Receives(log, id) ==
    {i \in 1..Len(log) : log[i].event_type = EventType_RECEIVE /\ log[i].message_id = id}

\* The number of RECEIVE events over all logs that carry the given id.
ReceiveCount(procs, id) ==
    LET RECURSIVE Sum(_)
        Sum(i) == IF i = 0 THEN 0
                  ELSE Cardinality(Receives(procs[Procs[i]].events, id)) + Sum(i - 1)
    IN  Sum(Len(Procs))

\* C1: in every process's event log, each event's timestamp is strictly
\* smaller than the timestamp of the event appended after it.
C1_Monotonic ==
    \A p \in DOMAIN processes :
        \A i \in 1..(Len(processes[p].events) - 1) :
            processes[p].events[i].timestamp < processes[p].events[i + 1].timestamp

\* A RECEIVE was appended after an event whose timestamp is greater than the
\* received message's timestamp.
C1_Witness ==
    \E p \in DOMAIN processes :
        \E i \in 1..(Len(processes[p].events) - 1) :
            /\ processes[p].events[i + 1].event_type = EventType_RECEIVE
            /\ \E m \in Range(delivered_messages) :
                   /\ m.id = processes[p].events[i + 1].message_id
                   /\ m.timestamp < processes[p].events[i].timestamp

\* C2: every delivered message whose receiver is a registered process has a
\* RECEIVE event in the receiver's log, and every RECEIVE event recorded for
\* it has a timestamp strictly greater than the message's timestamp.
C2_ReceiveStrict ==
    \A k \in 1..Len(delivered_messages) :
        LET m == delivered_messages[k]
        IN  m.receiver \in DOMAIN processes =>
                LET log == processes[m.receiver].events
                IN  /\ Receives(log, m.id) # {}
                    /\ \A i \in Receives(log, m.id) : log[i].timestamp > m.timestamp

\* The boundary case: the receiver's clock was equal to the message's
\* timestamp when the message was delivered.
C2_Witness ==
    \E k \in 1..Len(delivered_messages) :
        LET m == delivered_messages[k]
        IN  /\ m.receiver \in DOMAIN processes
            /\ LET log == processes[m.receiver].events
               IN  \E i \in Receives(log, m.id) :
                       /\ i > 1
                       /\ log[i - 1].timestamp = m.timestamp
                       /\ log[i].timestamp = m.timestamp + 1

\* C3: in the global history a RECEIVE event never stands before the SEND
\* event with the same message id, and the events of each process stand in
\* the order of that process's log.
C3_LinearExtension ==
    LET H == get_global_history(System)
    IN  /\ \A i \in 1..Len(H), j \in 1..Len(H) :
               /\ H[i].event_type = EventType_SEND
               /\ H[j].event_type = EventType_RECEIVE
               /\ H[i].message_id = H[j].message_id
               => i < j
        /\ \A p \in DOMAIN processes :
               LET OfP(e) == e.process_id = p
               IN  SelectSeq(H, OfP) = processes[p].events

\* A self-addressed message has been delivered, and two events of different
\* processes carry the same timestamp.
C3_Witness ==
    LET H == get_global_history(System)
    IN  /\ \E m \in Range(delivered_messages) :
               /\ m.sender = m.receiver
               /\ Receives(processes[m.receiver].events, m.id) # {}
        /\ \E i \in 1..(Len(H) - 1) :
               /\ H[i].timestamp = H[i + 1].timestamp
               /\ H[i].process_id # H[i + 1].process_id

\* C4: the number of messages send_message has created equals
\* len(pending_messages) + len(delivered_messages).
C4_Conservation ==
    Len(created) = Len(pending_messages) + Len(delivered_messages)

\* Messages are pending, one was delivered, and one delivery ended in the
\* KeyError of the receiver lookup.
C4_Witness ==
    /\ Len(pending_messages) >= 1
    /\ Len(delivered_messages) >= 1
    /\ last.op = "deliver_message"
    /\ last.outcome = "KeyError"

\* C5: every message send_message has created occurs exactly once in
\* pending_messages and delivered_messages taken together, and the two hold
\* nothing else.
C5_ExactlyOne ==
    /\ \A m \in Range(created) :
           Count(pending_messages, m) + Count(delivered_messages, m) = 1
    /\ Range(pending_messages) \cup Range(delivered_messages) \subseteq Range(created)

\* One message is pending, another is delivered, and the last delivery of a
\* pending message failed in the receiver lookup.
C5_Witness ==
    /\ pending_messages # <<>>
    /\ \E m \in Range(delivered_messages) : m.receiver \notin DOMAIN processes
    /\ last.op \in {"deliver_message", "deliver_all_pending"}
    /\ last.outcome = "KeyError"

\* C6: a delivered message stays in delivered_messages and out of
\* pending_messages in every later state, and no message id is carried by
\* more than one RECEIVE event.
C6_DeliveredTerminal ==
    [][/\ \A m \in Range(delivered_messages) :
              /\ m \in Range(delivered_messages')
              /\ m \notin Range(pending_messages')
       /\ \A m \in Range(created') : ReceiveCount(processes', m.id) <= 1
       /\ Len(delivered_messages') >= Len(delivered_messages)]_vars

\* deliver_message was called again with a message that is already
\* delivered and has its RECEIVE event.
C6_Witness ==
    /\ last.op = "deliver_message"
    /\ last.outcome = "ValueError"
    /\ last.message \in Range(delivered_messages)
    /\ ReceiveCount(processes, last.message.id) = 1

\* C7: deliver_all_pending returns normally and leaves pending_messages
\* empty, whatever messages random.choice draws.
C7_DeliverAllEmpties ==
    last.op = "deliver_all_pending" =>
        /\ last.outcome = "ok"
        /\ pending_messages = <<>>

\* C8: deliver_message with a message that is not in pending_messages ends in
\* an error and changes no clock, no event log, and neither message list.
C8_NotPendingRejected ==
    [][(/\ last'.op = "deliver_message"
        /\ last'.message \notin Range(pending_messages))
       => /\ last'.outcome = "ValueError"
          /\ UNCHANGED <<processes, pending_messages, delivered_messages, created>>]_vars

\* deliver_message was refused for a message that had been delivered before,
\* while other messages are pending.
C8_Witness ==
    /\ last.op = "deliver_message"
    /\ last.outcome = "ValueError"
    /\ last.message \in Range(delivered_messages)
    /\ pending_messages # <<>>

\* C9: send_message with an unregistered sender or an unregistered receiver
\* ends in an error, creates no message, appends no event, advances no clock
\* and leaves pending_messages as it was.
C9_SendValidatesBoth ==
    [][(/\ last'.op = "send_message"
        /\ \/ last'.process_id \notin DOMAIN processes
           \/ last'.receiver \notin DOMAIN processes)
       => /\ last'.outcome = "KeyError"
          /\ UNCHANGED <<processes, pending_messages, delivered_messages, created>>]_vars

\* C10: verify_causality returns a list in every reachable state; it never
\* ends in an error.
C10_VerifyNeverRaises ==
    last.op = "verify_causality" => last.outcome = "ok"

\* C11: verify_causality returns an empty list in every reachable state.
C11_VerifyReturnsEmpty ==
    last.op = "verify_causality" =>
        /\ last.outcome = "ok"
        /\ last.ret = <<>>

HasDuplicates(ids) ==
    \E i \in 1..Len(ids), j \in 1..Len(ids) : i # j /\ ids[i] = ids[j]

\* C12: the constructor, called with an empty list or with a list that holds
\* an id twice, ends in a configuration error and produces no system.
C12_CtorRejects ==
    (last.op = "__init__" /\ (process_ids = <<>> \/ HasDuplicates(process_ids)))
        => last.outcome = "ConfigurationError"

\* C13: local_event with an id that is not registered ends in an error and
\* changes no clock, no event log, and neither message list.
C13_LocalEventUnknown ==
    [][(/\ last'.op = "local_event"
        /\ last'.process_id \notin DOMAIN processes)
       => /\ last'.outcome = "KeyError"
          /\ UNCHANGED <<processes, pending_messages, delivered_messages, created>>]_vars

\* local_event was refused for an unregistered id in a system that has
\* events in its logs and a pending message.
C13_Witness ==
    /\ last.op = "local_event"
    /\ last.outcome = "KeyError"
    /\ last.process_id \notin DOMAIN processes
    /\ pending_messages # <<>>
    /\ TotalEvents >= 1

\* The SEND events of a log that carry the given message id.
Sends(log, id) ==
    {i \in 1..Len(log) : log[i].event_type = EventType_SEND /\ log[i].message_id = id}

\* C14: for every message ever created, the sender's log has a SEND event
\* with the message's id, and every such event has the message's timestamp.
C14_SendStamp ==
    \A m \in Range(created) :
        /\ m.sender \in DOMAIN processes
        /\ LET log == processes[m.sender].events
           IN  /\ Sends(log, m.id) # {}
               /\ \A i \in Sends(log, m.id) : log[i].timestamp = m.timestamp

\* A message was sent after a receive had moved its sender's clock.
C14_Witness ==
    \E m \in Range(created) :
        /\ m.timestamp >= 3
        /\ m.sender \in DOMAIN processes
        /\ Sends(processes[m.sender].events, m.id) # {}

\* C17: send_message with sender = receiver returns normally, appends the
\* message to pending and a SEND event to the sender's log; delivering that
\* message appends a RECEIVE event to the same log, later than the SEND
\* event, and the log stays strictly increasing.
C17_SelfAddressed ==
    [][/\ (/\ last'.op = "send_message"
           /\ last'.process_id = last'.receiver
           /\ last'.process_id \in DOMAIN processes)
          => LET p == last'.process_id
                 m == last'.message
                 log == processes'[p].events
             IN  /\ last'.outcome = "ok"
                 /\ m.sender = p /\ m.receiver = p
                 /\ pending_messages' = Append(pending_messages, m)
                 /\ Len(log) = Len(processes[p].events) + 1
                 /\ log[Len(log)].event_type = EventType_SEND
                 /\ log[Len(log)].message_id = m.id
       /\ (/\ last'.op = "deliver_message"
           /\ last'.message \in Range(pending_messages)
           /\ last'.message.sender = last'.message.receiver
           /\ last'.message.sender \in DOMAIN processes)
          => LET p == last'.message.sender
                 m == last'.message
                 log == processes'[p].events
             IN  /\ last'.outcome = "ok"
                 /\ SubSeq(log, 1, Len(log) - 1) = processes[p].events
                 /\ log[Len(log)].event_type = EventType_RECEIVE
                 /\ log[Len(log)].message_id = m.id
                 /\ \A i \in Sends(log, m.id) :
                        i < Len(log) /\ log[i].timestamp < log[Len(log)].timestamp
                 /\ Sends(log, m.id) # {}
                 /\ \A i \in 1..(Len(log) - 1) : log[i].timestamp < log[i + 1].timestamp
      ]_vars

\* A self-addressed message was delivered after its sender had logged
\* another event behind the SEND event.
C17_Witness ==
    /\ last.op = "deliver_message"
    /\ last.outcome = "ok"
    /\ last.message.sender = last.message.receiver
    /\ LET log == processes[last.message.sender].events
       IN  /\ Len(log) >= 3
           /\ log[Len(log)].message_id = last.message.id
           /\ \E i \in Sends(log, last.message.id) : i < Len(log) - 1

\* The orders in which the registered processes can be listed.
Orders ==
    {o \in [1..Len(Procs) -> Registered] :
        \A i \in 1..Len(Procs), j \in 1..Len(Procs) : i # j => o[i] # o[j]}

\* C18: the global history holds every event of every log exactly once, its
\* keys (timestamp, process_id) strictly increase from each entry to the
\* next, and it is the same for every order of the processes.
C18_HistorySorted ==
    LET H == get_global_history(System)
    IN  /\ Len(H) = TotalEvents
        /\ \A p \in DOMAIN processes :
               \A i \in 1..Len(processes[p].events) :
                   Count(H, processes[p].events[i]) = 1
        /\ \A i \in 1..(Len(H) - 1) :
               \/ H[i].timestamp < H[i + 1].timestamp
               \/ /\ H[i].timestamp = H[i + 1].timestamp
                  /\ PidRank(H[i].process_id) < PidRank(H[i + 1].process_id)
        /\ \A o \in Orders : sorted(all_events(System, o)) = H

\* Two processes registered against their id order have logged events with
\* the same timestamp, and the history holds at least three events.
C18_Witness ==
    LET H == get_global_history(System)
    IN  /\ Len(H) >= 3
        /\ Len(Procs) = 2
        /\ PidRank(Procs[1]) > PidRank(Procs[2])
        /\ \E i \in 1..(Len(H) - 1) : H[i].timestamp = H[i + 1].timestamp

\* C19: deliver_message finds its argument whenever pending_messages holds a
\* message with the same id, whatever the argument's other fields are.
C19_FoundById ==
    [][(/\ last'.op = "deliver_message"
        /\ \E p \in Range(pending_messages) : p.id = last'.message.id)
       => last'.outcome # "ValueError"]_vars

\* C20: a local_event or send_message call that returns raises the clock of
\* the process it acts on by exactly 1 and appends one event stamped with the
\* new clock value; the message of a send carries the same value.
C20_TickByOne ==
    [][(/\ last'.op \in {"local_event", "send_message"}
        /\ last'.outcome = "ok")
       => LET p == last'.process_id
              log == processes'[p].events
          IN  /\ processes'[p].time = processes[p].time + 1
              /\ SubSeq(log, 1, Len(log) - 1) = processes[p].events
              /\ Len(log) = Len(processes[p].events) + 1
              /\ log[Len(log)].timestamp = processes'[p].time
              /\ log[Len(log)].event_type =
                     IF last'.op = "send_message" THEN EventType_SEND
                     ELSE EventType_LOCAL
              /\ last'.op = "send_message" =>
                     last'.message.timestamp = processes'[p].time]_vars

\* A process sent a message and logged a local event after a receive had
\* moved its clock past 1.
C20_Witness ==
    /\ last.op = "local_event"
    /\ last.outcome = "ok"
    /\ processes[last.process_id].time >= 3
    /\ \E m \in Range(created) : m.sender = last.process_id

\* The (timestamp, process_id) keys of the global history, in its order.
HistoryKeys ==
    LET H == get_global_history(System)
    IN  [i \in 1..Len(H) |-> <<H[i].timestamp, H[i].process_id>>]

\* Every call of the demo script has been made.
DemoDone ==
    /\ process_ids = DemoProcs
    /\ TotalEvents = Len(DemoScript)

\* C15 as stated: after the three-process scenario verify_causality returns
\* an empty list and the global history has the 10 entries (1,A) (1,B) (1,C)
\* (2,A) (2,B) (3,B) (4,B) (5,C) (6,C) (7,A).
C15_DemoTenEntries ==
    DemoDone =>
        /\ verify_causality(System) = [outcome |-> "ok", ret |-> <<>>]
        /\ HistoryKeys = << <<1, "A">>, <<1, "B">>, <<1, "C">>, <<2, "A">>,
                            <<2, "B">>, <<3, "B">>, <<4, "B">>, <<5, "C">>,
                            <<6, "C">>, <<7, "A">> >>

\* C15 amended: after the three-process scenario verify_causality returns an
\* empty list and the global history has the 11 entries (1,A) (1,B) (1,C)
\* (2,A) (2,B) (3,A) (3,B) (4,B) (5,C) (6,C) (7,A).
C15_DemoElevenEntries ==
    DemoDone =>
        /\ verify_causality(System) = [outcome |-> "ok", ret |-> <<>>]
        /\ HistoryKeys = << <<1, "A">>, <<1, "B">>, <<1, "C">>, <<2, "A">>,
                            <<2, "B">>, <<3, "A">>, <<3, "B">>, <<4, "B">>,
                            <<5, "C">>, <<6, "C">>, <<7, "A">> >>

\* The scenario has run to its end, all three messages are delivered, and
\* verify_causality has been called.
C15_Witness ==
    /\ DemoDone
    /\ Len(delivered_messages) = 3
    /\ pending_messages = <<>>
    /\ last.op = "verify_causality"

\* C21: a delivery that returns sets the receiver's clock to
\* max(previous clock, message timestamp) + 1, greater than both, and
\* appends one RECEIVE event stamped with it.
C21_ReceiveMaxPlusOne ==
    [][(/\ last'.op = "deliver_message"
        /\ last'.outcome = "ok")
       => LET m == last'.message
              old == processes[m.receiver]
              new == processes'[m.receiver]
          IN  /\ new.time = (IF old.time >= m.timestamp THEN old.time
                                                         ELSE m.timestamp) + 1
              /\ new.time > old.time
              /\ new.time > m.timestamp
              /\ SubSeq(new.events, 1, Len(new.events) - 1) = old.events
              /\ new.events[Len(new.events)].event_type = EventType_RECEIVE
              /\ new.events[Len(new.events)].message_id = m.id
              /\ new.events[Len(new.events)].timestamp = new.time]_vars

\* A message was delivered to a process whose clock was ahead of the
\* message's timestamp.
C21_Witness ==
    /\ last.op = "deliver_message"
    /\ last.outcome = "ok"
    /\ LET log == processes[last.message.receiver].events
       IN  /\ Len(log) >= 2
           /\ log[Len(log) - 1].timestamp > last.message.timestamp
           /\ log[Len(log)].timestamp = log[Len(log) - 1].timestamp + 1

\* C22: local_event changes only the clock and log of its process;
\* send_message changes only the sender's clock and log and pending_messages;
\* deliver_message changes only the receiver's clock and log,
\* pending_messages and delivered_messages.
C22_Frame ==
    [][/\ last'.op = "local_event" =>
              /\ \A q \in DOMAIN processes :
                     q # last'.process_id => processes'[q] = processes[q]
              /\ UNCHANGED <<pending_messages, delivered_messages>>
       /\ last'.op = "send_message" =>
              /\ \A q \in DOMAIN processes :
                     q # last'.process_id => processes'[q] = processes[q]
              /\ UNCHANGED delivered_messages
       /\ last'.op = "deliver_message" =>
              \A q \in DOMAIN processes :
                  q # last'.message.receiver => processes'[q] = processes[q]
       /\ DOMAIN processes' = DOMAIN processes]_vars

\* A message between two different registered processes was delivered while
\* the sender's clock was behind the receiver's new clock.
C22_Witness ==
    /\ last.op = "deliver_message"
    /\ last.outcome = "ok"
    /\ last.message.sender # last.message.receiver
    /\ last.message.sender \in DOMAIN processes
    /\ processes[last.message.sender].time < processes[last.message.receiver].time

\* C23: any two messages created by different send calls have different ids.
C23_UniqueIds ==
    \A i \in 1..Len(created), j \in 1..Len(created) :
        i # j => created[i].id # created[j].id

\* One process has sent two messages to the same receiver with the same
\* content, so that only the clock value tells their ids apart.
C23_Witness ==
    \E i \in 1..Len(created), j \in 1..Len(created) :
        /\ i # j
        /\ created[i].sender = created[j].sender
        /\ created[i].receiver = created[j].receiver
        /\ created[i].content = created[j].content

\* The number of events of a type over all logs.
EventCount(type) ==
    LET RECURSIVE Sum(_)
        Sum(i) ==
            IF i = 0 THEN 0
            ELSE LET log == processes[Procs[i]].events
                 IN  Cardinality({k \in 1..Len(log) : log[k].event_type = type})
                     + Sum(i - 1)
    IN  Sum(Len(Procs))

\* C24: every delivered message has exactly one SEND event in its sender's
\* log and exactly one RECEIVE event in its receiver's log; there are as
\* many RECEIVE events as delivered messages and as many SEND events as
\* pending and delivered messages together.
C24_EventsMatchMessages ==
    /\ \A m \in Range(delivered_messages) :
           /\ m.sender \in DOMAIN processes
           /\ Cardinality(Sends(processes[m.sender].events, m.id)) = 1
           /\ m.receiver \in DOMAIN processes
           /\ Cardinality(Receives(processes[m.receiver].events, m.id)) = 1
    /\ EventCount(EventType_RECEIVE) = Len(delivered_messages)
    /\ EventCount(EventType_SEND) = Len(pending_messages) + Len(delivered_messages)

\* C25: a deliver_message call that ends in an error leaves pending_messages
\* and delivered_messages as they were and appends no event.
C25_DeliverAtomic ==
    [][(/\ last'.op = "deliver_message"
        /\ last'.outcome # "ok")
       => UNCHANGED <<processes, pending_messages, delivered_messages>>]_vars

\* The events of the logs, each named by its process and its position.
EventIds ==
    UNION {{<<p, i>> : i \in 1..Len(processes[p].events)} : p \in DOMAIN processes}

EventAt(e) == processes[e[1]].events[e[2]]

\* a directly precedes b: a is earlier in the same log, or a is the SEND of
\* the message whose RECEIVE is b.
Precedes(a, b) ==
    \/ a[1] = b[1] /\ a[2] < b[2]
    \/ /\ EventAt(a).event_type = EventType_SEND
       /\ EventAt(b).event_type = EventType_RECEIVE
       /\ EventAt(a).message_id = EventAt(b).message_id

\* Happened-before: the transitive closure of Precedes.
HappenedBefore ==
    LET direct == {ab \in EventIds \X EventIds : Precedes(ab[1], ab[2])}
        RECURSIVE Close(_)
        Close(R) ==
            LET step == R \cup {ab \in EventIds \X EventIds :
                                   \E c \in EventIds : <<ab[1], c>> \in R /\ <<c, ab[2]>> \in R}
            IN  IF step = R THEN R ELSE Close(step)
    IN  Close(direct)

\* C26: if event a happened before event b, a's timestamp is smaller than
\* b's.
C26_ClockCondition ==
    \A ab \in HappenedBefore :
        EventAt(ab[1]).timestamp < EventAt(ab[2]).timestamp

\* An event happened before an event of another process only through a
\* chain: it is neither in the same log nor the SEND of the other.
C26_Witness ==
    \E ab \in HappenedBefore :
        /\ ab[1][1] # ab[2][1]
        /\ ~Precedes(ab[1], ab[2])

\* C27: each process's clock is the timestamp of the last event of its log,
\* or 0 when the log is empty; every timestamp is at least 1; no pending
\* message carries a timestamp above its sender's clock.
C27_ClockIsLastStamp ==
    /\ \A p \in DOMAIN processes :
           LET log == processes[p].events
           IN  /\ processes[p].time = (IF log = <<>> THEN 0 ELSE log[Len(log)].timestamp)
               /\ \A i \in 1..Len(log) : log[i].timestamp >= 1
    /\ \A m \in Range(pending_messages) :
           /\ m.sender \in DOMAIN processes
           /\ m.timestamp <= processes[m.sender].time

\* A message is pending while its sender's clock has moved past the
\* message's timestamp, and another process has an empty log.
C27_Witness ==
    /\ \E m \in Range(pending_messages) :
           /\ m.sender \in DOMAIN processes
           /\ m.timestamp < processes[m.sender].time
    /\ \E p \in DOMAIN processes : processes[p].events = <<>>

\* ------------------------------------------------------------------- C28
\* C28: whenever run attempts the action's execute, the action's rollback is
\* invoked exactly once afterwards, on every path, and rollback is never
\* invoked when execute was not attempted.
C28_RollbackOnceAfterExecute ==
    /\ [](run.rollbacks <= run.executes /\ run.rollbacks <= 1)
    /\ (run.executes = 1) ~> (run.rollbacks = 1)

\* ------------------------------------------------------------------- C29
\* Every check made so far found the probe within the tolerance.
StaysWithinTolerance ==
    \A d \in {run.result.hypothesis_before, run.result.hypothesis_during,
              run.result.hypothesis_after} :
        d = NoDict \/ d.satisfied

\* No call of the action's execute or rollback has raised.
ActionsReturn ==
    /\ run.result.abort_reason # "str(e)"
    /\ run.returned # "exception"

\* C29: run(dry_run=False) terminates for every duration_seconds >= 1 when the
\* probe stays within tolerance and the action calls return, and the status
\* it returns is COMPLETED, ABORTED or FAILED, never RUNNING or PENDING.
C29_RunTerminates ==
    (~run.dry_run /\ run.duration_seconds >= 1
        /\ []StaysWithinTolerance /\ []ActionsReturn)
    => <>(/\ run.returned = "result"
          /\ run.result.status \in {ExperimentStatus_COMPLETED,
                                    ExperimentStatus_ABORTED,
                                    ExperimentStatus_FAILED})

\* ------------------------------------------------------------------- C30
\* C30: with abort_on_hypothesis_failure true, a check during monitoring that
\* is not satisfied (value outside tolerance, or the probe raising) stops the
\* monitoring with status ABORTED and abort_reason "Hypothesis failed during
\* experiment"; a run whose pre-experiment check is not satisfied returns
\* ABORTED without ever executing the action.
C30_AbortedOnFailedCheck ==
    /\ (/\ run.abort_on_hypothesis_failure
        /\ run.result.hypothesis_during # NoDict
        /\ ~run.result.hypothesis_during.satisfied)
       => /\ run.pc # "monitor"
          /\ run.result.status = ExperimentStatus_ABORTED
          /\ run.result.abort_reason = "Hypothesis failed during experiment"
    /\ (/\ run.result.hypothesis_before # NoDict
        /\ ~run.result.hypothesis_before.satisfied)
       => /\ run.returned = "result"
          /\ run.result.status = ExperimentStatus_ABORTED
          /\ run.executes = 0

====
